---------------------------- MODULE Spec2Model ----------------------------
(***************************************************************************)
(* VentureCompassAI: the run-state reducers, the budget ledger and the two *)
(* LangGraph workflows (sequential LLM chain, legacy fan-out/fan-in).      *)
(*                                                                         *)
(* Dictionaries are functions whose DOMAIN is the set of keys present;     *)
(* Python lists are sequences; None is the string "None".                  *)
(* Money is counted in whole dollars, credits in whole credits.            *)
(***************************************************************************)
EXTENDS Integers, Sequences, FiniteSets, TLC

VARIABLES
    acc,             \* reducer specs: the channel values after the merges so far
    prev,            \* reducer specs: the channel values before the last merge
    deltas,          \* reducer specs: the deltas merged so far, in order
    ledger,          \* db.budget_tracking: the recorded cost entries, in insertion order
    current_run_id,  \* BudgetTracker.current_run_id
    lastCheck,       \* the last check_budget call, if any: arguments, result, ledger length it saw
    tasks,           \* started background tasks: run id -> positions of the ledger entries
                     \* recorded by calls made on behalf of that run
    state,           \* the graph state of the running workflow
    pc,              \* position of the run driver / the graph driver
    runRecord,       \* the run's document in db.runs
    executed,        \* stage nodes that have returned, in order
    swallowed,       \* stages whose reasoning-engine call raised inside the agent
    failed,          \* stage nodes whose own except branch produced the delta
    writes,          \* legacy graph: deltas of the current superstep not yet merged
    credits,         \* legacy graph: provider calls each stage made and was charged for
    store,           \* the result collections of the database: collection -> documents
    attempted,       \* the collections the last persistence call tried to write,
                     \* and "runs" once the final status update was issued
    persists,        \* the persistence calls made so far, in order
    lastDelta,       \* the delta returned by the stage node that ran last
    extracted,       \* output extraction: an engine response and what a stage made of it
    now,             \* time.time(), whole seconds
    request_count,   \* TavilyClient._request_count
    reset_time,      \* TavilyClient._reset_time
    last_request_time, \* TavilyClient._last_request_time
    callers,         \* coroutines inside _rate_limit_check: position, current_time, wake-up time
    request,         \* the last _make_request call: responses met, attempts, waits, result
    operands,        \* the operands of the last reducer calls, as the calls left them
    runs             \* db.runs as the background tasks left it: run id -> what the
                     \* final update of the task set

reducerVars == <<acc, prev, deltas, operands>>
confVars    == <<extracted>>
clientVars  == <<now, request_count, reset_time, last_request_time, callers, request>>
runsVars    == <<runs>>
serviceVars == <<confVars, clientVars, runsVars>>
budgetVars  == <<ledger, current_run_id, lastCheck, tasks>>
dbVars      == <<store, attempted, persists>>
runVars     == <<state, pc, runRecord, executed, swallowed, failed, writes, credits,
                 lastDelta, store, attempted, persists>>
vars        == <<acc, prev, deltas, operands, ledger, current_run_id, lastCheck, tasks,
                 state, pc, runRecord, executed, swallowed, failed, writes, credits,
                 lastDelta, store, attempted, persists, serviceVars>>

None     == "None"
Company  == "Acme"     \* the company a run analyses
RunId    == "r_1"      \* the run_id of the run followed
EmptyMap == [k \in {} |-> 0]

Range(s) == {s[i] : i \in 1..Len(s)}

Last(s) == s[Len(s)]

IsPrefix(s, t) == Len(s) <= Len(t) /\ SubSeq(t, 1, Len(s)) = s

RECURSIVE CountIn(_, _)
CountIn(x, s) ==
    IF s = <<>> THEN 0
    ELSE (IF Head(s) = x THEN 1 ELSE 0) + CountIn(x, Tail(s))

(***************************************************************************)
(* Bounds of the model                                                     *)
(***************************************************************************)
StartTime == 2      \* the clock when the client is constructed, seconds
WarmUp    == 27     \* requests made one by one before the callers are followed
MaxClock  == 64     \* the clock is followed up to this second
MaxDeltas == 3     \* deltas merged in one behaviour of a reducer spec
MaxCredit == 2     \* largest single contribution to one cost dimension
MaxLedger == 3     \* ledger entries recorded in one behaviour

\* TavilyClient.__init__: self._reset_time = time.time() + 60
RateWindow == 60

(***************************************************************************)
(* The reducers of app/models/schemas.py                                   *)
(***************************************************************************)
CostKeys     == {"tavily_credits", "llm_tokens"}
StatusValues == {"pending", "running", "complete", "partial", "error", "completed"}

\* a plausible slip: dict.update semantics, the right value replaces the left one
merge_costs_overwrite(left, right) ==
    [k \in DOMAIN left \cup DOMAIN right |->
        IF k \in DOMAIN right THEN right[k] ELSE left[k]]

\* result = left.copy(); result[key] = result.get(key, 0) + value
merge_costs(left, right) ==
    [k \in DOMAIN left \cup DOMAIN right |->
        IF k \in DOMAIN right
        THEN (IF k \in DOMAIN left THEN left[k] ELSE 0) + right[k]
        ELSE left[k]]

\* a plausible slip: result[key] = value for every key
merge_results_overwrite(left, right) ==
    [k \in DOMAIN left \cup DOMAIN right |->
        IF k \in DOMAIN right THEN right[k] ELSE left[k]]

\* result[key].extend(value) when the key is present, result[key] = value otherwise
merge_results(left, right) ==
    [k \in DOMAIN left \cup DOMAIN right |->
        IF k \in DOMAIN right
        THEN (IF k \in DOMAIN left THEN left[k] \o right[k] ELSE right[k])
        ELSE left[k]]

merge_queries(left, right) ==
    [k \in DOMAIN left \cup DOMAIN right |->
        IF k \in DOMAIN right
        THEN (IF k \in DOMAIN left THEN left[k] \o right[k] ELSE right[k])
        ELSE left[k]]

Max(a, b) == IF a >= b THEN a ELSE b

merge_confidence_scores(left, right) ==
    [k \in DOMAIN left \cup DOMAIN right |->
        IF k \in DOMAIN right
        THEN (IF k \in DOMAIN left THEN Max(left[k], right[k]) ELSE right[k])
        ELSE left[k]]

\* status_priority.get(s, 0)
status_priority(s) ==
    CASE s = "error"    -> 5
      [] s = "partial"  -> 4
      [] s = "running"  -> 3
      [] s = "complete" -> 2
      [] s = "pending"  -> 1
      [] OTHER          -> 0

\* a plausible slip: the comparison reversed, the lower priority wins
merge_status_reversed(left, right) ==
    IF status_priority(left) <= status_priority(right) THEN left ELSE right

merge_status(left, right) ==
    IF status_priority(left) >= status_priority(right) THEN left ELSE right

phase_priority(p) ==
    CASE p = "synthesis"    -> 4
      [] p = "verification" -> 3
      [] p = "research"     -> 2
      [] p = "discovery"    -> 1
      [] OTHER              -> 0

merge_phase(left, right) ==
    IF phase_priority(left) >= phase_priority(right) THEN left ELSE right

\* a plausible slip: the channel declared without its reducer (last value wins)
operator_add_overwrite(left, right) == right

\* operator.add on lists
operator_add(left, right) == left \o right

\* RunState: the reducer each Annotated channel declares; a channel without
\* one keeps the last value written
Reduce(key, left, right) ==
    CASE key \in {"company_aliases", "verified_facts", "citations", "errors"}
                                    -> operator_add(left, right)
      [] key = "queries"            -> merge_queries(left, right)
      [] key = "results"            -> merge_results(left, right)
      [] key = "confidence_scores"  -> merge_confidence_scores(left, right)
      [] key = "cost"               -> merge_costs(left, right)
      [] key = "status"             -> merge_status(left, right)
      [] key = "current_phase"      -> merge_phase(left, right)
      [] OTHER                      -> right

\* the left operand once the reducer has returned. result = left.copy() is a
\* shallow copy: result[key].extend(value) of merge_results and merge_queries
\* extends the list left[key] itself; the other reducers build new values
LeftAfter(k, left, right) ==
    IF k \in {"results", "queries"}
    THEN [key \in DOMAIN left |->
            IF key \in DOMAIN right THEN left[key] \o right[key] ELSE left[key]]
    ELSE left

\* the keys under which the result holds the very list of the right operand:
\* result[key] = value of merge_results and merge_queries
SharedWithRight(k, left, right) ==
    IF k \in {"results", "queries"} THEN DOMAIN right \ DOMAIN left ELSE {}

\* one delta merged into the channels: keys the delta does not name are kept
ApplyDelta(st, d) ==
    [k \in DOMAIN st \cup DOMAIN d |->
        IF k \notin DOMAIN d THEN st[k]
        ELSE IF k \notin DOMAIN st THEN d[k]
        ELSE Reduce(k, st[k], d[k])]

RECURSIVE FoldDeltas(_, _)
FoldDeltas(st, ds) ==
    IF ds = <<>> THEN st ELSE FoldDeltas(ApplyDelta(st, Head(ds)), Tail(ds))

(***************************************************************************)
(* Reducer specifications: a channel set fed a bounded sequence of deltas  *)
(***************************************************************************)
\* the result collections, all empty
EmptyStore ==
    [c \in {"sources", "patents", "founders", "competitive_analysis",
            "deepdive_analysis", "verification_analysis", "insights"} |-> {}]

IdleBudget ==
    /\ ledger = <<>>
    /\ current_run_id = None
    /\ lastCheck = <<>>
    /\ tasks = EmptyMap

IdleRun ==
    /\ state = EmptyMap
    /\ pc = "idle"
    /\ runRecord = EmptyMap
    /\ executed = <<>>
    /\ swallowed = {}
    /\ failed = {}
    /\ writes = <<>>
    /\ credits = EmptyMap
    /\ lastDelta = <<>>
    /\ store = EmptyStore
    /\ attempted = {}
    /\ persists = <<>>

IdleConf == extracted = <<>>

\* TavilyClient.__init__, no call made
IdleClient ==
    /\ now = StartTime
    /\ request_count = 0
    /\ reset_time = StartTime + RateWindow
    /\ last_request_time = 0
    /\ callers = EmptyMap
    /\ request = <<>>

IdleRuns == runs = EmptyMap

IdleService == IdleConf /\ IdleClient /\ IdleRuns

IdleReducers ==
    /\ acc = EmptyMap
    /\ prev = EmptyMap
    /\ deltas = <<>>
    /\ operands = <<>>

Merge(d) ==
    /\ Len(deltas) < MaxDeltas
    /\ prev' = acc
    /\ acc' = ApplyDelta(acc, d)
    /\ deltas' = Append(deltas, d)
    /\ operands' = <<[k \in DOMAIN acc \cap DOMAIN d |->
                       [left      |-> acc[k],
                        right     |-> d[k],
                        leftAfter |-> LeftAfter(k, acc[k], d[k]),
                        shared    |-> SharedWithRight(k, acc[k], d[k])]]>>
    /\ UNCHANGED <<budgetVars, runVars, serviceVars>>

\* every non-empty cost map with contributions in 1..MaxCredit
CostMaps ==
    UNION {[ks -> 1..MaxCredit] : ks \in (SUBSET CostKeys) \ {{}}}

InitCost ==
    /\ acc = [cost |-> EmptyMap]
    /\ prev = acc
    /\ deltas = <<>>
    /\ operands = <<>>
    /\ IdleBudget /\ IdleRun /\ IdleService

MergeCost == \E c \in CostMaps : Merge([cost |-> c])

SpecCost == InitCost /\ [][MergeCost]_vars

InitStatus ==
    /\ acc \in {[status |-> s] : s \in StatusValues}
    /\ prev = acc
    /\ deltas = <<>>
    /\ operands = <<>>
    /\ IdleBudget /\ IdleRun /\ IdleService

MergeStatus == \E s \in StatusValues : Merge([status |-> s])

SpecStatus == InitStatus /\ [][MergeStatus]_vars

ResultKeys  == {"news", "patents"}
ResultLists == {<<>>, <<"doc1">>, <<"doc2">>, <<"doc1", "doc2">>}

ResultMaps ==
    UNION {[ks -> ResultLists] : ks \in (SUBSET ResultKeys) \ {{}}}

InitResults ==
    /\ acc = [results |-> EmptyMap]
    /\ prev = acc
    /\ deltas = <<>>
    /\ operands = <<>>
    /\ IdleBudget /\ IdleRun /\ IdleService

MergeResults == \E r \in ResultMaps : Merge([results |-> r])

SpecResults == InitResults /\ [][MergeResults]_vars

(***************************************************************************)
(* The list channels of RunState fed the deltas the stage nodes return     *)
(***************************************************************************)
ListFields == {"errors", "company_aliases", "verified_facts"}

AliasChoices == {"Acme Inc", "Acme Corp"}
FactChoices  == {"fact_news_0", "fact_patent_0"}
AgentNames   == {"news_retriever", "patent_hunter", "deepdive_agent"}

\* run_analysis: the list channels, the status and the phase of initial_state
InitialLists ==
    [company_aliases |-> <<>>, verified_facts |-> <<>>, errors |-> <<>>,
     status |-> "running", current_phase |-> "discovery"]

\* the except branch of discovery_agent_node
DiscoveryFailureDelta ==
    [company_aliases |-> <<Company>>,
     current_phase   |-> "research",
     errors          |-> <<[agent |-> "discovery_agent"]>>,
     status          |-> "partial"]

\* the except branch of the other legacy nodes:
\* {"errors": state.get("errors", []) + [entry], "status": "partial"}
LegacyFailureDelta(st, agent) ==
    [errors |-> st.errors \o <<[agent |-> agent]>>, status |-> "partial"]

InitLists ==
    /\ acc = InitialLists
    /\ prev = acc
    /\ deltas = <<>>
    /\ operands = <<>>
    /\ IdleBudget /\ IdleRun /\ IdleService

\* a stage delta that appends one alias
MergeAlias == \E a \in AliasChoices : Merge([company_aliases |-> <<a>>, status |-> "running"])

\* a stage delta that appends one verified fact
MergeFact == \E f \in FactChoices : Merge([verified_facts |-> <<f>>, status |-> "running"])

\* the delta of a stage node whose except branch ran
MergeFailure ==
    \/ Merge(DiscoveryFailureDelta)
    \/ \E a \in AgentNames : Merge(LegacyFailureDelta(acc, a))

NextLists == MergeAlias \/ MergeFact \/ MergeFailure

SpecLists == InitLists /\ [][NextLists]_vars

(***************************************************************************)
(* The budget ledger of app/core/budget_tracker.py                         *)
(***************************************************************************)
MaxBudget == 10    \* BudgetTracker.max_budget, dollars

RunIds          == {"r_1", "r_2"}
CostChoices     == {2, 3, 4}     \* actual_cost of one recorded operation, dollars
EstimateChoices == {1, 4}        \* estimated_cost passed to check_budget, dollars

RECURSIVE SumCost(_)
\* {"$group": {"_id": None, "total": {"$sum": "$cost"}}}
SumCost(entries) ==
    IF entries = <<>> THEN 0 ELSE Head(entries).cost + SumCost(Tail(entries))

\* {"$match": {"run_id": run_id}}
MatchRun(entries, run_id) == SelectSeq(entries, LAMBDA e : e.run_id = run_id)

\* the pipeline matches on run_id only when a run_id is given
get_current_spend(run_id) ==
    IF run_id # None THEN SumCost(MatchRun(ledger, run_id)) ELSE SumCost(ledger)

get_run_spend ==
    IF current_run_id = None THEN 0 ELSE get_current_spend(current_run_id)

\* a plausible slip: the cap compared with the run's spend instead of the total
check_budget_run_spend(estimated_cost, warn_only) ==
    IF get_run_spend + estimated_cost >= MaxBudget
    THEN (IF warn_only THEN TRUE ELSE FALSE)
    ELSE TRUE

\* the run-level test above the global one only logs a warning
check_budget(estimated_cost, warn_only) ==
    IF get_current_spend(None) + estimated_cost > MaxBudget
    THEN (IF warn_only THEN TRUE ELSE FALSE)
    ELSE TRUE

\* a plausible slip: the status computed from the current run's spend
get_budget_status_run_scoped ==
    LET current_spend == get_run_spend
        remaining     == MaxBudget - current_spend
    IN  [max_budget    |-> MaxBudget,
         current_spend |-> current_spend,
         remaining     |-> remaining,
         status        |-> IF remaining > 2 THEN "healthy"
                           ELSE IF 2 * remaining > 1 THEN "warning"
                           ELSE "critical"]

\* "healthy" if remaining > 2.0 else "warning" if remaining > 0.5 else "critical"
get_budget_status ==
    LET current_spend == get_current_spend(None)
        remaining     == MaxBudget - current_spend
    IN  [max_budget    |-> MaxBudget,
         current_spend |-> current_spend,
         remaining     |-> remaining,
         status        |-> IF remaining > 2 THEN "healthy"
                           ELSE IF 2 * remaining > 1 THEN "warning"
                           ELSE "critical"]

InitBudget ==
    /\ IdleBudget
    /\ IdleReducers /\ IdleRun /\ IdleService

set_run_id(run_id) ==
    /\ current_run_id' = run_id
    /\ UNCHANGED <<ledger, lastCheck, reducerVars, serviceVars, runVars>>

\* sets the run id; the spends it reads are only logged
reset_for_new_run(run_id) ==
    /\ current_run_id' = run_id
    /\ UNCHANGED <<ledger, lastCheck, reducerVars, serviceVars, runVars>>

\* a plausible slip: one ledger document per run, replaced on every call
record_cost_replace(operation, actual_cost) ==
    /\ Len(ledger) < MaxLedger
    /\ ledger' = Append(SelectSeq(ledger, LAMBDA e : e.run_id # current_run_id),
                        [operation |-> operation, cost |-> actual_cost,
                         run_id |-> current_run_id])
    /\ UNCHANGED <<current_run_id, lastCheck, reducerVars, serviceVars, runVars>>

\* db.budget_tracking.insert_one(record); the reads after it are only logged
record_cost(operation, actual_cost) ==
    /\ Len(ledger) < MaxLedger
    /\ ledger' = Append(ledger, [operation |-> operation, cost |-> actual_cost,
                                 run_id |-> current_run_id])
    /\ UNCHANGED <<current_run_id, lastCheck, reducerVars, serviceVars, runVars>>

check_budget_call(estimated_cost, warn_only) ==
    /\ lastCheck' = <<[estimated_cost |-> estimated_cost, warn_only |-> warn_only,
                       allowed |-> check_budget(estimated_cost, warn_only),
                       seen |-> Len(ledger)]>>
    /\ UNCHANGED <<ledger, current_run_id, reducerVars, serviceVars, runVars>>

\* cached_llm_operation: a cache hit returns the stored result; on a miss
\* check_budget is called with its default warn_only = True, a false result
\* raises BudgetExceededException, otherwise the estimate is recorded
cached_llm_operation(hit, estimated_cost) ==
    IF hit
    THEN UNCHANGED vars
    ELSE LET allowed == check_budget(estimated_cost, TRUE)
         IN  /\ Len(ledger) < MaxLedger
             /\ lastCheck' = <<[estimated_cost |-> estimated_cost, warn_only |-> TRUE,
                                allowed |-> allowed, seen |-> Len(ledger)]>>
             /\ ledger' = IF allowed
                           THEN Append(ledger, [operation |-> "synthesis",
                                                cost |-> estimated_cost,
                                                run_id |-> current_run_id])
                           ELSE ledger
             /\ UNCHANGED <<current_run_id, tasks, reducerVars, serviceVars, runVars>>

\* record_cost stands for its direct callers too (the Tavily tools and
\* _call_openai_synthesis): none of them makes the call depend on a check
NextBudget ==
    \/ \E r \in RunIds : set_run_id(r) /\ UNCHANGED tasks
    \/ \E r \in RunIds : reset_for_new_run(r) /\ UNCHANGED tasks
    \/ \E c \in CostChoices : record_cost("llm_call", c) /\ UNCHANGED tasks
    \/ \E e \in EstimateChoices, w \in BOOLEAN : check_budget_call(e, w) /\ UNCHANGED tasks
    \/ \E h \in BOOLEAN, e \in EstimateChoices : cached_llm_operation(h, e)

SpecBudget == InitBudget /\ [][NextBudget]_vars

(***************************************************************************)
(* Background tasks sharing the one budget tracker of the process          *)
(*                                                                         *)
(* Every POST /runs queues run_llm_analysis as a background task on the    *)
(* same event loop; the tasks interleave at their awaits.  budget_tracker  *)
(* is a module-level object: its current_run_id is shared by all of them.  *)
(***************************************************************************)
InitTasks ==
    /\ IdleBudget
    /\ IdleReducers /\ IdleRun /\ IdleService

\* dict.get(key, default)
DictGet(d, key, default) == IF key \in DOMAIN d THEN d[key] ELSE default

\* run_llm_analysis of run r starts: budget_tracker.reset_for_new_run(run_id)
task_starts(r) ==
    /\ r \notin DOMAIN tasks
    /\ reset_for_new_run(r)
    /\ tasks' = tasks @@ (r :> <<>>)

\* a tool called by an agent of run r records what its external call cost
task_records(r, operation, actual_cost) ==
    /\ r \in DOMAIN tasks
    /\ record_cost(operation, actual_cost)
    /\ tasks' = [tasks EXCEPT ![r] = Append(@, Len(ledger) + 1)]

\* run_llm_analysis after graph.ainvoke: actual_costs read from
\* budget_tracker.get_budget_status(), which takes no run id
actual_costs ==
    LET budget_status == get_budget_status
    IN  [tavily_credits   |-> DictGet(budget_status, "tavily_spend", 0),
         llm_tokens       |-> DictGet(budget_status, "total_tokens", 0),
         openai_usd       |-> DictGet(budget_status, "current_spend", 0),
         operations_count |-> DictGet(budget_status, "operations_count", 0)]

\* run_llm_analysis of run r ends: the final update of its document in db.runs
task_finishes(r) ==
    /\ r \in DOMAIN tasks
    /\ r \notin DOMAIN runs
    /\ runs' = runs @@ (r :> [cost |-> actual_costs, completed |-> TRUE])
    /\ UNCHANGED <<budgetVars, reducerVars, runVars, confVars, clientVars>>

NextTasks ==
    \/ \E r \in RunIds : task_starts(r)
    \/ \E r \in RunIds, c \in CostChoices : task_records(r, "tavily_search", c)
    \/ \E r \in RunIds : task_finishes(r)

SpecTasks == InitTasks /\ [][NextTasks]_vars

(***************************************************************************)
(* Result persistence: the final state of a run written to the collections *)
(***************************************************************************)
MaxPersists == 2     \* persistence calls followed

Collections == DOMAIN EmptyStore

\* a write that raises for a reason of its own (connection, validation)
WriteFailures == {None} \cup Collections

\* f"news_{run_id}_{idx}", f"patent_{run_id}_{idx}", f"founder_{run_id}_{idx}"
RunScopedId(prefix, run_id, idx) ==
    prefix \o "_" \o run_id \o "_" \o ToString(idx)

\* f"competitive_{run_id}", f"deepdive_{run_id}", f"verification_{run_id}"
SingleDocId(prefix, run_id) == prefix \o "_" \o run_id

\* SourceDoc.id of the legacy nodes: f"news_{len(news_sources)}"
PositionId(prefix, idx) == prefix \o "_" \o ToString(idx)

\* the documents _persist_llm_results_to_db builds for one list of the state
LLMDocs(prefix, run_id, n) ==
    {[_id |-> RunScopedId(prefix, run_id, idx), run_id |-> run_id] : idx \in 0..(n - 1)}

\* the documents _persist_results_to_db builds: "_id": source.id
LegacyDocs(docs) ==
    {[_id |-> PositionId(docs[i].kind, docs[i].n), run_id |-> docs[i].run_id] :
        i \in 1..Len(docs)}

\* the outcome of a write: the collections, and whether the call raised
\* collection.insert_many(docs, ordered=False): every document whose _id is
\* free is inserted; a duplicate key raises after the others are in
insert_many(db, coll, docs, fail) ==
    LET fresh == {d \in docs : \A e \in db[coll] : e._id # d._id}
    IN  IF fail = coll
        THEN [db |-> db, raised |-> TRUE, duplicate |-> FALSE]
        ELSE [db |-> [db EXCEPT ![coll] = @ \cup fresh],
              raised |-> fresh # docs, duplicate |-> fresh # docs]

\* collection.insert_one(doc) for a document without _id: a new ObjectId
insert_one(db, coll, run_id, fail) ==
    IF fail = coll
    THEN [db |-> db, raised |-> TRUE, duplicate |-> FALSE]
    ELSE [db |-> [db EXCEPT ![coll] =
                    @ \cup {[_id |-> PositionId("oid", Cardinality(db[coll])),
                             run_id |-> run_id]}],
          raised |-> FALSE, duplicate |-> FALSE]

\* collection.replace_one({"run_id": run_id}, doc, upsert=True); id is the
\* document's "_id", or None when the document leaves it to the database:
\* a matching document is replaced and keeps its _id, else doc is inserted
replace_one(db, coll, run_id, id, fail) ==
    LET matching == {e \in db[coll] : e.run_id = run_id}
        newId    == IF id = None THEN PositionId("oid", Cardinality(db[coll])) ELSE id
        clash    == \E e \in db[coll] : e._id = newId
    IN  IF fail = coll
        THEN [db |-> db, raised |-> TRUE, duplicate |-> FALSE]
        ELSE IF matching # {}
        THEN [db |-> db,
              raised |-> id # None /\ \A e \in matching : e._id # id,
              duplicate |-> FALSE]
        ELSE IF clash
        THEN [db |-> db, raised |-> TRUE, duplicate |-> TRUE]
        ELSE [db |-> [db EXCEPT ![coll] = @ \cup {[_id |-> newId, run_id |-> run_id]}],
              raised |-> FALSE, duplicate |-> FALSE]

\* the progress of a persistence call: the collections, the writes tried,
\* the collections that answered with a duplicate key, whether the call
\* has left its body through the outer except
PersistStart(db) == [db |-> db, tried |-> {}, dupes |-> {}, aborted |-> FALSE]

\* one write of a persistence call; inner tells whether the write sits in
\* a try block of its own
PersistStep(p, coll, present, w, inner) ==
    IF p.aborted \/ ~present THEN p
    ELSE [db      |-> w.db,
          tried   |-> p.tried \cup {coll},
          dupes   |-> IF w.duplicate THEN p.dupes \cup {coll} ELSE p.dupes,
          aborted |-> w.raised /\ ~inner]

\* final states of the LLM workflow, by what they hold
LLMFinalStates ==
    {[run_id |-> r, news |-> 2, patents |-> 1, founders |-> 1, competitive |-> TRUE,
      deepdive |-> TRUE, verification |-> TRUE, insights |-> TRUE] : r \in RunIds}
    \cup
    {[run_id |-> r, news |-> 1, patents |-> 0, founders |-> 0, competitive |-> FALSE,
      deepdive |-> TRUE, verification |-> FALSE, insights |-> FALSE] : r \in RunIds}

\* final states of the legacy workflow: insights and risks are never set
LegacyFinalStates ==
    {[run_id |-> r,
      results |-> [k \in ks |-> IF k = "news"
                                THEN [i \in 1..2 |-> [kind |-> "news", n |-> i - 1, run_id |-> r]]
                                ELSE [i \in 1..1 |-> [kind |-> "patent", n |-> i - 1, run_id |-> r]]],
      insights |-> <<>>, risks |-> <<>>] :
        r \in RunIds, ks \in {{"news", "patents"}, {"news"}, {"patents"}}}

\* _persist_llm_results_to_db, with every write except the last in a try
\* block of its own
persist_llm_results_to_db(db, st, fail) ==
    LET r  == st.run_id
        p0 == PersistStart(db)
        p1 == PersistStep(p0, "sources", st.news > 0,
                  insert_many(p0.db, "sources", LLMDocs("news", r, st.news), fail), TRUE)
        p2 == PersistStep(p1, "patents", st.patents > 0,
                  insert_many(p1.db, "patents", LLMDocs("patent", r, st.patents), fail), TRUE)
        p3 == PersistStep(p2, "founders", st.founders > 0,
                  insert_many(p2.db, "founders", LLMDocs("founder", r, st.founders), fail), TRUE)
        p4 == PersistStep(p3, "competitive_analysis", st.competitive,
                  replace_one(p3.db, "competitive_analysis", r, SingleDocId("competitive", r), fail), TRUE)
        p5 == PersistStep(p4, "deepdive_analysis", st.deepdive,
                  replace_one(p4.db, "deepdive_analysis", r, SingleDocId("deepdive", r), fail), TRUE)
        p6 == PersistStep(p5, "verification_analysis", st.verification,
                  replace_one(p5.db, "verification_analysis", r, SingleDocId("verification", r), fail), TRUE)
        p7 == PersistStep(p6, "insights", st.insights,
                  replace_one(p6.db, "insights", r, None, fail), FALSE)
    IN  p7

\* _persist_results_to_db: one try block around all the writes
persist_results_to_db(db, st, fail) ==
    LET has(k) == k \in DOMAIN st.results /\ st.results[k] # <<>>
        docs(k) == IF has(k) THEN LegacyDocs(st.results[k]) ELSE {}
        p0 == PersistStart(db)
        p1 == PersistStep(p0, "sources", has("news"),
                  insert_many(p0.db, "sources", docs("news"), fail), FALSE)
        p2 == PersistStep(p1, "patents", has("patents"),
                  insert_many(p1.db, "patents", docs("patents"), fail), FALSE)
        p3 == PersistStep(p2, "insights", st.insights # <<>>,
                  insert_one(p2.db, "insights", st.run_id, fail), FALSE)
    IN  p3

\* the collections a final state has something to write to
LLMKinds(st) ==
    {c \in Collections :
        \/ c = "sources" /\ st.news > 0
        \/ c = "patents" /\ st.patents > 0
        \/ c = "founders" /\ st.founders > 0
        \/ c = "competitive_analysis" /\ st.competitive
        \/ c = "deepdive_analysis" /\ st.deepdive
        \/ c = "verification_analysis" /\ st.verification
        \/ c = "insights" /\ st.insights}

LegacyKinds(st) ==
    {c \in Collections :
        \/ c = "sources" /\ "news" \in DOMAIN st.results
        \/ c = "patents" /\ "patents" \in DOMAIN st.results
        \/ c = "insights" /\ st.insights # <<>>}

InitPersist == IdleBudget /\ IdleReducers /\ IdleRun /\ IdleService

\* what both callers do with the outcome: the persistence function has
\* swallowed every exception, the final status update of db.runs follows
PersistedThenUpdated(workflow, st, fail, kinds, p) ==
    /\ store' = p.db
    /\ attempted' = p.tried \cup {"runs"}
    /\ persists' = Append(persists, [workflow |-> workflow, run_id |-> st.run_id,
                                      final |-> st, fail |-> fail, kinds |-> kinds,
                                      dupes |-> p.dupes, aborted |-> p.aborted])

\* persistence of a final state taken by itself
Persisted(workflow, st, fail, kinds, p) ==
    /\ Len(persists) < MaxPersists
    /\ PersistedThenUpdated(workflow, st, fail, kinds, p)
    /\ UNCHANGED <<state, pc, runRecord, executed, swallowed, failed, writes,
                   credits, lastDelta, budgetVars, reducerVars, serviceVars>>

\* run_llm_analysis from the persistence call to the final status update
run_llm_analysis_persist(st, fail) ==
    Persisted("llm", st, fail, LLMKinds(st), persist_llm_results_to_db(store, st, fail))

\* run_analysis from the persistence call to the final status update
run_analysis_persist(st, fail) ==
    Persisted("legacy", st, fail, LegacyKinds(st), persist_results_to_db(store, st, fail))

NextPersist ==
    \/ \E st \in LLMFinalStates, fail \in WriteFailures : run_llm_analysis_persist(st, fail)
    \/ \E st \in LegacyFinalStates, fail \in {None, "sources", "patents"} :
            run_analysis_persist(st, fail)

SpecPersist == InitPersist /\ [][NextPersist]_vars

(***************************************************************************)
(* The sequential LLM workflow of app/agents/llm_orchestrator.py           *)
(*                                                                         *)
(* The graph is StateGraph(Dict[str, Any]): the state has no reducers, and *)
(* the dictionary a node returns is the next node's state.                 *)
(*                                                                         *)
(* What one stage's reasoning-engine call did:                             *)
(*   structured   - agent.ainvoke returned a schema-validated result       *)
(*   unparseable  - it returned text without a structured_response         *)
(*   engine_error - it raised (network error); the agent's own             *)
(*                  try/except catches it and returns fallback output      *)
(*   node_error   - an exception reached the node's try block (it escaped  *)
(*                  the agent, or a database read of the node failed)      *)
(***************************************************************************)
EngineOutcomes == {"structured", "unparseable", "engine_error"}
StageOutcomes  == EngineOutcomes \cup {"node_error"}

LLMStages == <<"discovery", "news", "founders", "competitive",
               "patents", "deepdive", "verification", "synthesis">>

\* a plausible slip: an edge that bypasses the founder node
LLMNextNodeSkipping(node) ==
    CASE node = "discovery_llm_agent"    -> "news_llm_agent"
      [] node = "news_llm_agent"         -> "competitive_llm_agent"
      [] node = "founder_llm_agent"      -> "competitive_llm_agent"
      [] node = "competitive_llm_agent"  -> "patent_llm_agent"
      [] node = "patent_llm_agent"       -> "deepdive_llm_agent"
      [] node = "deepdive_llm_agent"     -> "verification_llm_agent"
      [] node = "verification_llm_agent" -> "synthesis_llm"
      [] node = "synthesis_llm"          -> "END"

\* the edges of _build_llm_graph: the node each node hands over to
LLMNextNode(node) ==
    CASE node = "discovery_llm_agent"    -> "news_llm_agent"
      [] node = "news_llm_agent"         -> "founder_llm_agent"
      [] node = "founder_llm_agent"      -> "competitive_llm_agent"
      [] node = "competitive_llm_agent"  -> "patent_llm_agent"
      [] node = "patent_llm_agent"       -> "deepdive_llm_agent"
      [] node = "deepdive_llm_agent"     -> "verification_llm_agent"
      [] node = "verification_llm_agent" -> "synthesis_llm"
      [] node = "synthesis_llm"          -> "END"

\* what an agent method returns: its try/except turns an engine error into
\* the fallback output, an unparseable answer into the heuristic/placeholder one
AgentResult(outcome) ==
    CASE outcome = "structured"   -> "structured"
      [] outcome = "unparseable"  -> "heuristic"
      [] outcome = "engine_error" -> "fallback"

\* DiscoveryResults.company_aliases: [company_name] + the aliases of the
\* structured output; the fallback results carry [company_name] alone
DiscoveryAliases(result) ==
    IF result = "structured" THEN <<Company, "Acme Inc">> ELSE <<Company>>

\* SynthesisIntelligenceAgent.analyze: without a structured_response the
\* placeholder SynthesisOutput goes through _convert_to_synthesis_dict
SynthesisInsights(outcome) ==
    CASE outcome = "structured"   -> [source |-> "structured",  llm_enhanced |-> TRUE]
      [] outcome = "unparseable"  -> [source |-> "placeholder", llm_enhanced |-> TRUE]
      [] outcome = "engine_error" -> [source |-> "fallback",    llm_enhanced |-> FALSE]

\* the except branch of every node: {**state, "errors": errors + [entry], "status": "partial"}
LLMFailureDelta(st, agent) ==
    [st EXCEPT !.errors = @ \o <<[agent |-> agent]>>, !.status = "partial"]

\* the dictionary passed to a node, as it is once the node has returned:
\* current_results = state.get("results", {}) is the dictionary held by the
\* state passed, current_results[key] = value stores into it, and the
\* "results" of {**state, ...} is that same dictionary
PassedAfter(st, delta) == [st EXCEPT !.results = delta.results]

\* the graph driver: the returned dictionary replaces the state, the edge is followed
LLMNodeReturns(stage, outcome, delta) ==
    /\ state' = delta
    /\ lastDelta' = <<[stage |-> stage, delta |-> delta,
                       passed |-> state, passedAfter |-> PassedAfter(state, delta)]>>
    /\ pc' = LLMNextNode(pc)
    /\ executed' = Append(executed, stage)
    /\ swallowed' = IF outcome = "engine_error" THEN swallowed \cup {stage} ELSE swallowed
    /\ failed' = IF outcome = "node_error" THEN failed \cup {stage} ELSE failed
    /\ UNCHANGED <<runRecord, writes, credits, budgetVars, reducerVars, serviceVars, dbVars>>

InitLLM ==
    /\ state = EmptyMap
    /\ pc = "start"
    /\ runRecord = EmptyMap
    /\ executed = <<>>
    /\ swallowed = {}
    /\ failed = {}
    /\ writes = <<>>
    /\ credits = EmptyMap
    /\ lastDelta = <<>>
    /\ store = EmptyStore
    /\ attempted = {}
    /\ persists = <<>>
    /\ IdleBudget /\ IdleReducers /\ IdleService

\* POST /runs: the run document is inserted, the background task is queued
create_run ==
    /\ pc = "start"
    /\ runRecord' = [run_id |-> RunId, status |-> "pending", errors |-> <<>>,
                     completed |-> FALSE]
    /\ pc' = "queued"
    /\ UNCHANGED <<state, executed, swallowed, failed, writes, credits, lastDelta,
                   budgetVars, reducerVars, serviceVars, dbVars>>

\* run_llm_analysis up to graph.ainvoke: the tracker is reset, the record is
\* set running, the initial state is built
run_llm_analysis_begin ==
    /\ pc = "queued"
    /\ current_run_id' = RunId
    /\ runRecord' = [runRecord EXCEPT !.status = "running"]
    /\ state' = [run_id |-> RunId,
                 company |-> [name |-> Company],
                 discovery_results |-> None,
                 company_aliases |-> <<Company>>,
                 results |-> [news |-> <<>>, patents |-> <<>>, founders |-> <<>>,
                              competitive |-> None],
                 deepdive_results |-> None,
                 verified_facts |-> <<>>,
                 verification_results |-> None,
                 insights |-> <<>>,
                 status |-> "running",
                 current_phase |-> "discovery",
                 errors |-> <<>>]
    /\ pc' = "discovery_llm_agent"
    /\ UNCHANGED <<ledger, lastCheck, tasks, executed, swallowed, failed, writes, credits,
                   lastDelta, reducerVars, serviceVars, dbVars>>

discovery_llm_node(outcome) ==
    /\ pc = "discovery_llm_agent"
    /\ LLMNodeReturns("discovery", outcome,
          IF outcome = "node_error"
          THEN LLMFailureDelta(state, "discovery_llm")
          ELSE [state EXCEPT !.discovery_results = AgentResult(outcome),
                             !.company_aliases = DiscoveryAliases(AgentResult(outcome)),
                             !.current_phase = "research",
                             !.status = "running"])

news_llm_node(outcome) ==
    /\ pc = "news_llm_agent"
    /\ LLMNodeReturns("news", outcome,
          IF outcome = "node_error"
          THEN LLMFailureDelta(state, "news_llm")
          ELSE [state EXCEPT !.results.news = <<AgentResult(outcome)>>,
                             !.status = "running"])

founder_llm_node(outcome) ==
    /\ pc = "founder_llm_agent"
    /\ LLMNodeReturns("founders", outcome,
          IF outcome = "node_error"
          THEN LLMFailureDelta(state, "founder_llm")
          ELSE [state EXCEPT !.results.founders = <<AgentResult(outcome)>>,
                             !.status = "running"])

competitive_llm_node(outcome) ==
    /\ pc = "competitive_llm_agent"
    /\ LLMNodeReturns("competitive", outcome,
          IF outcome = "node_error"
          THEN LLMFailureDelta(state, "competitive_llm")
          ELSE [state EXCEPT !.results.competitive = AgentResult(outcome),
                             !.status = "running"])

patent_llm_node(outcome) ==
    /\ pc = "patent_llm_agent"
    /\ LLMNodeReturns("patents", outcome,
          IF outcome = "node_error"
          THEN LLMFailureDelta(state, "patent_llm")
          ELSE [state EXCEPT !.results.patents = <<AgentResult(outcome)>>,
                             !.status = "running"])

deepdive_llm_node(outcome) ==
    /\ pc = "deepdive_llm_agent"
    /\ LLMNodeReturns("deepdive", outcome,
          IF outcome = "node_error"
          THEN LLMFailureDelta(state, "deepdive_llm")
          ELSE [state EXCEPT !.deepdive_results = AgentResult(outcome),
                             !.status = "running"])

verification_llm_node(outcome) ==
    /\ pc = "verification_llm_agent"
    /\ LLMNodeReturns("verification", outcome,
          IF outcome = "node_error"
          THEN LLMFailureDelta(state, "verification_llm")
          ELSE [state EXCEPT !.verified_facts = <<AgentResult(outcome)>>,
                             !.verification_results = AgentResult(outcome),
                             !.current_phase = "synthesis",
                             !.status = "running"])

synthesis_llm_node(outcome) ==
    /\ pc = "synthesis_llm"
    /\ LLMNodeReturns("synthesis", outcome,
          IF outcome = "node_error"
          THEN LLMFailureDelta(state, "synthesis_llm")
          ELSE [state EXCEPT !.insights = <<SynthesisInsights(outcome)>>,
                             !.status = "completed"])

\* what _persist_llm_results_to_db reads of the final state
LLMFinalState(st) ==
    [run_id       |-> st.run_id,
     news         |-> Len(st.results.news),
     patents      |-> Len(st.results.patents),
     founders     |-> Len(st.results.founders),
     competitive  |-> st.results.competitive # None,
     deepdive     |-> st.deepdive_results # None,
     verification |-> st.verification_results # None,
     insights     |-> st.insights # <<>>]

\* run_llm_analysis up to the try block, when the ledger read of
\* reset_for_new_run or the update that sets the record running raises:
\* the exception leaves the task, the record stays as create_run wrote it
run_llm_analysis_begin_raises ==
    /\ pc = "queued"
    /\ current_run_id' = RunId
    /\ pc' = "crashed"
    /\ UNCHANGED <<state, runRecord, executed, swallowed, failed, writes, credits,
                   lastDelta, ledger, lastCheck, tasks, reducerVars, serviceVars, dbVars>>

\* run_llm_analysis after graph.ainvoke: costs, persistence, the final update
\* of the run document with final_state.get("status", "completed")
run_llm_analysis_finish(fail) ==
    LET st == LLMFinalState(state)
    IN  /\ pc = "END"
        /\ PersistedThenUpdated("llm", st, fail, LLMKinds(st),
                                persist_llm_results_to_db(store, st, fail))
        /\ runRecord' = [runRecord EXCEPT !.status = state.status,
                                          !.errors = state.errors,
                                          !.completed = TRUE]
        /\ pc' = "done"
        /\ UNCHANGED <<state, executed, swallowed, failed, writes, credits, lastDelta,
                       budgetVars, reducerVars, serviceVars>>

\* the except branch of run_llm_analysis: a step after graph.ainvoke raised,
\* the ledger aggregate of get_budget_status (nothing is persisted) or the
\* final update (the results are persisted); handled tells whether the
\* update of the except branch is written or raises in its turn
run_llm_analysis_error(at, handled) ==
    LET st == LLMFinalState(state)
    IN  /\ pc = "END"
        /\ IF at = "final_update"
           THEN PersistedThenUpdated("llm", st, None, LLMKinds(st),
                                     persist_llm_results_to_db(store, st, None))
           ELSE UNCHANGED dbVars
        /\ runRecord' = IF handled
                        THEN [runRecord EXCEPT !.status = "error",
                                               !.errors = <<[agent |-> "run_llm_analysis"]>>,
                                               !.completed = TRUE]
                        ELSE runRecord
        /\ pc' = IF handled THEN "aborted" ELSE "crashed"
        /\ UNCHANGED <<state, executed, swallowed, failed, writes, credits, lastDelta,
                       budgetVars, reducerVars, serviceVars>>

NextLLM ==
    \/ create_run
    \/ run_llm_analysis_begin
    \/ run_llm_analysis_begin_raises
    \/ \E o \in StageOutcomes : discovery_llm_node(o)
    \/ \E o \in StageOutcomes : news_llm_node(o)
    \/ \E o \in StageOutcomes : founder_llm_node(o)
    \/ \E o \in StageOutcomes : competitive_llm_node(o)
    \/ \E o \in StageOutcomes : patent_llm_node(o)
    \/ \E o \in StageOutcomes : deepdive_llm_node(o)
    \/ \E o \in StageOutcomes : verification_llm_node(o)
    \/ \E o \in StageOutcomes : synthesis_llm_node(o)
    \/ \E fail \in WriteFailures : run_llm_analysis_finish(fail)
    \/ \E at \in {"get_budget_status", "final_update"}, handled \in BOOLEAN :
            run_llm_analysis_error(at, handled)

SpecLLM == InitLLM /\ [][NextLLM]_vars

\* the event loop runs a queued background task, and every step of it that
\* can be taken is taken
SpecLLMFair == SpecLLM /\ WF_vars(NextLLM)

(***************************************************************************)
(* The legacy fan-out/fan-in workflow of app/agents/orchestrator.py        *)
(*                                                                         *)
(* The graph is StateGraph(RunState): every delta is merged into the state *)
(* channel by channel with the reducers above.  news_retriever,            *)
(* patent_hunter and deepdive_agent run in one superstep: each reads the   *)
(* state discovery left, and their deltas are merged when all three have   *)
(* returned.  Optional objects are <<>> (None) or a one-element sequence.  *)
(* Every search that succeeds returns one document.                        *)
(***************************************************************************)
COST_CAP_TAVILY_CREDITS == 20

Domains         == {None, "acme.com"}
AttemptOutcomes == {"error", "empty", "found"}
UrlCounts       == {3, 8}          \* URLs one map call returns when it finds the site

ResearchStages == {"news_retriever", "patent_hunter", "deepdive_agent"}
LegacyStages   == {"discovery_agent", "verification_agent", "insight_synthesizer"}
                      \cup ResearchStages

Min(a, b) == IF a <= b THEN a ELSE b

\* a plausible slip: verification wired to discovery instead of the fan-out
LegacyNextNodeNoFanOut(node) ==
    CASE node = "discovery_agent"     -> "verification_agent"
      [] node = "research"            -> "verification_agent"
      [] node = "verification_agent"  -> "insight_synthesizer"
      [] node = "insight_synthesizer" -> "END"

\* the edges of _build_graph, superstep by superstep
LegacyNextNode(node) ==
    CASE node = "discovery_agent"     -> "research"
      [] node = "research"            -> "verification_agent"
      [] node = "verification_agent"  -> "insight_synthesizer"
      [] node = "insight_synthesizer" -> "END"

\* both routes lead to news_retriever
route_after_discovery(st) ==
    IF st.discovery_results # <<>> /\ st.discovery_results[1].discovered_urls > 5
    THEN "parallel_research" ELSE "fallback_search"

\* potential_urls[:2]: one URL when the domain is given, else two guesses;
\* the loop stops at the first map call that finds pages
DiscoveryAttempts(domain) ==
    IF domain # None
    THEN {<<o>> : o \in AttemptOutcomes}
    ELSE {<<"found">>} \cup
         {<<a, b>> : a \in {"error", "empty"}, b \in AttemptOutcomes}

\* credits_used += 1 after every map call that returned
MapCredits(attempts) ==
    Cardinality({i \in 1..Len(attempts) : attempts[i] # "error"})

\* the cost entry of every success delta:
\* {**state["cost"], "tavily_credits": state["cost"]["tavily_credits"] + credits_used}
CostDelta(st, credits_used) ==
    [st.cost EXCEPT !["tavily_credits"] = @ + credits_used]

\* the documents of one stage: id f"news_{len(news_sources)}", run_id
Docs(kind, n) == [i \in 1..n |-> [kind |-> kind, n |-> i - 1, run_id |-> RunId]]

Queries(kind, n) == [i \in 1..n |-> [kind |-> kind, n |-> i]]

\* company_names of news_retriever_node: the aliases, then the name if missing
NewsCompanyNames(st) ==
    IF Company \in Range(st.company_aliases)
    THEN st.company_aliases ELSE Append(st.company_aliases, Company)

\* three queries for each of company_names[:2], one more for the primary domain
NewsQueryCount(st) ==
    3 * Min(2, Len(NewsCompanyNames(st)))
    + (IF st.discovery_results # <<>> /\ st.discovery_results[1].discovered_urls > 0
       THEN 1 ELSE 0)

\* three queries for each of ([company] + aliases)[:3]
PatentQueryCount(st) == 3 * Min(3, 1 + Len(st.company_aliases))

\* a plausible slip: the loop without its test of the cap
SearchesUncapped(queryCount, cap) == queryCount

\* the loop stops issuing searches once credits_used reaches the cap
Searches(queryCount, cap) == Min(queryCount, cap)

\* where the first search raises: 0 for nowhere, else the first or the last
FailPoints(n) == {0, 1, n}

\* run_analysis: initial_state
LegacyInitialState(domain) ==
    [run_id            |-> RunId,
     company           |-> [name |-> Company, domain |-> domain],
     discovery_results |-> <<>>,
     company_aliases   |-> <<>>,
     queries           |-> [news |-> <<>>, patents |-> <<>>],
     results           |-> EmptyMap,
     deepdive_results  |-> <<>>,
     verified_facts    |-> <<>>,
     confidence_scores |-> EmptyMap,
     insights          |-> <<>>,
     risks             |-> <<>>,
     citations         |-> <<>>,
     cost              |-> [tavily_credits |-> 0, llm_tokens |-> 0],
     status            |-> "running",
     current_phase     |-> "discovery",
     errors            |-> <<>>]

\* the graph driver: the delta is written; when the superstep's last node has
\* returned, the writes are merged channel by channel and the edge is followed
LegacyNodeReturns(stage, delta, isFailure, used, calls) ==
    LET ws      == Append(writes, delta)
        barrier == pc # "research" \/ ResearchStages \subseteq (Range(executed) \cup {stage})
    IN  /\ writes' = IF barrier THEN <<>> ELSE ws
        /\ state' = IF barrier THEN FoldDeltas(state, ws) ELSE state
        /\ pc' = IF barrier THEN LegacyNextNode(pc) ELSE pc
        /\ executed' = Append(executed, stage)
        /\ failed' = IF isFailure THEN failed \cup {stage} ELSE failed
        /\ credits' = credits @@ (stage :> [used |-> used, calls |-> calls])
        /\ lastDelta' = <<[stage |-> stage, delta |-> delta,
                           passed |-> state, passedAfter |-> state]>>
        /\ UNCHANGED <<runRecord, swallowed, current_run_id, lastCheck, tasks,
                       reducerVars, serviceVars, dbVars>>

InitLegacy ==
    /\ state = EmptyMap
    /\ pc = "queued"
    /\ runRecord = [run_id |-> RunId, status |-> "pending", errors |-> <<>>,
                    cost |-> EmptyMap, completed |-> FALSE]
    /\ executed = <<>>
    /\ swallowed = {}
    /\ failed = {}
    /\ writes = <<>>
    /\ credits = EmptyMap
    /\ lastDelta = <<>>
    /\ store = EmptyStore
    /\ attempted = {}
    /\ persists = <<>>
    /\ IdleBudget /\ IdleReducers /\ IdleService

\* run_analysis up to graph.ainvoke
run_analysis_begin(domain) ==
    /\ pc = "queued"
    /\ runRecord' = [runRecord EXCEPT !.status = "running"]
    /\ state' = LegacyInitialState(domain)
    /\ pc' = "discovery_agent"
    /\ UNCHANGED <<executed, swallowed, failed, writes, credits, lastDelta,
                   budgetVars, reducerVars, serviceVars, dbVars>>

\* attempts: what each map call did; urls: the pages the finding call returned;
\* alias: the site's name differs from the company name; raises: building the
\* results raised after the loop
discovery_agent_node(attempts, urls, alias, raises) ==
    /\ pc = "discovery_agent"
    /\ attempts \in DiscoveryAttempts(state.company.domain)
    /\ LET found           == Last(attempts) = "found"
           discovered_urls == IF found THEN urls ELSE 0
           company_aliases == IF found /\ alias THEN <<Company, "Acme Labs">>
                                                ELSE <<Company>>
           credits_used    == MapCredits(attempts)
       IN  IF raises
           THEN LegacyNodeReturns("discovery_agent", DiscoveryFailureDelta, TRUE,
                                  credits_used, Len(attempts))
           ELSE LegacyNodeReturns("discovery_agent",
                    [discovery_results |-> <<[discovered_urls |-> Min(discovered_urls, 10),
                                              company_aliases |-> company_aliases]>>,
                     company_aliases   |-> company_aliases,
                     current_phase     |-> "research",
                     cost              |-> CostDelta(state, credits_used),
                     status            |-> "running"],
                    FALSE, credits_used, Len(attempts))
    /\ UNCHANGED ledger

\* failAt: the search that raises (0: none does)
news_retriever_node(failAt) ==
    /\ pc = "research"
    /\ "news_retriever" \notin Range(executed)
    /\ LET queries  == NewsQueryCount(state)
           searches == Searches(queries, COST_CAP_TAVILY_CREDITS \div 3)
       IN  /\ failAt \in FailPoints(searches)
           /\ IF failAt # 0
              THEN LegacyNodeReturns("news_retriever",
                       LegacyFailureDelta(state, "news_retriever"), TRUE, failAt - 1, failAt)
              ELSE LegacyNodeReturns("news_retriever",
                       [queries |-> [state.queries EXCEPT !.news = Queries("news", queries)],
                        results |-> [k \in DOMAIN state.results \cup {"news"} |->
                                        IF k = "news" THEN Docs("news", searches)
                                        ELSE state.results[k]],
                        cost    |-> CostDelta(state, searches),
                        status  |-> "running"],
                       FALSE, searches, searches)
    /\ UNCHANGED ledger

patent_hunter_node(failAt) ==
    /\ pc = "research"
    /\ "patent_hunter" \notin Range(executed)
    /\ LET queries  == PatentQueryCount(state)
           searches == Searches(queries, COST_CAP_TAVILY_CREDITS \div 2)
       IN  /\ failAt \in FailPoints(searches)
           /\ IF failAt # 0
              THEN LegacyNodeReturns("patent_hunter",
                       LegacyFailureDelta(state, "patent_hunter"), TRUE, failAt - 1, failAt)
              ELSE LegacyNodeReturns("patent_hunter",
                       [queries |-> [state.queries EXCEPT !.patents = Queries("patent", queries)],
                        results |-> [k \in DOMAIN state.results \cup {"patents"} |->
                                        IF k = "patents" THEN Docs("patent", searches)
                                        ELSE state.results[k]],
                        cost    |-> CostDelta(state, searches),
                        status  |-> "running"],
                       FALSE, searches, searches)
    /\ UNCHANGED ledger

\* outcome: what the extract call did
deepdive_agent_node(outcome) ==
    /\ pc = "research"
    /\ "deepdive_agent" \notin Range(executed)
    /\ IF state.discovery_results = <<>> \/ state.discovery_results[1].discovered_urls = 0
       THEN LegacyNodeReturns("deepdive_agent", [status |-> "partial"], FALSE, 0, 0)
       ELSE IF outcome = "error"
       THEN LegacyNodeReturns("deepdive_agent",
                LegacyFailureDelta(state, "deepdive_agent"), TRUE, 0, 1)
       ELSE LegacyNodeReturns("deepdive_agent",
                [deepdive_results |-> <<[extracted |-> outcome = "found"]>>,
                 cost             |-> CostDelta(state, 1),
                 status           |-> "running"],
                FALSE, 1, 1)
    /\ UNCHANGED ledger

\* confidence scores in hundredths; the try block reads the state only
verification_agent_node ==
    /\ pc = "verification_agent"
    /\ LET news_sources == IF "news" \in DOMAIN state.results
                           THEN state.results["news"] ELSE <<>>
           patent_docs  == IF "patents" \in DOMAIN state.results
                           THEN state.results["patents"] ELSE <<>>
           website      == IF state.deepdive_results # <<>>
                              /\ state.deepdive_results[1].extracted THEN 100 ELSE 0
           news_rel     == Min(100, Len(news_sources) * 10)
           patent_cov   == Min(100, Len(patent_docs) * 20)
       IN  LegacyNodeReturns("verification_agent",
               [verified_facts    |-> SubSeq(news_sources, 1, Min(3, Len(news_sources)))
                                      \o SubSeq(patent_docs, 1, Min(2, Len(patent_docs))),
                confidence_scores |-> [news_reliability |-> news_rel,
                                       patent_coverage  |-> patent_cov,
                                       website_analysis |-> website,
                                       overall |-> (news_rel + patent_cov + website) \div 3],
                current_phase     |-> "synthesis",
                status            |-> "running"],
               FALSE, 0, 0)
    /\ UNCHANGED ledger

\* spent: what the synthesis call recorded in the ledger (0: nothing recorded).
\* company_data.get("discovery_results", {}) is None or a DiscoveryResults
\* object, neither has .get: the try block always ends in the except branch
insight_synthesizer_node(spent) ==
    /\ pc = "insight_synthesizer"
    /\ ledger' = IF spent = 0 THEN ledger
                 ELSE Append(ledger, [operation |-> "synthesis", cost |-> spent,
                                      run_id |-> current_run_id])
    /\ LegacyNodeReturns("insight_synthesizer",
           LegacyFailureDelta(state, "insight_synthesizer"), TRUE, 0, 0)

\* run_analysis up to the try block, when the update that sets the record
\* running raises: the exception leaves the task
run_analysis_begin_raises ==
    /\ pc = "queued"
    /\ pc' = "crashed"
    /\ UNCHANGED <<state, runRecord, executed, swallowed, failed, writes, credits,
                   lastDelta, budgetVars, reducerVars, serviceVars, dbVars>>

\* run_analysis after graph.ainvoke: persistence, then the final update
run_analysis_finish(fail) ==
    /\ pc = "END"
    /\ PersistedThenUpdated("legacy", state, fail, LegacyKinds(state),
                            persist_results_to_db(store, state, fail))
    /\ runRecord' = [runRecord EXCEPT !.status = state.status,
                                      !.cost = state.cost,
                                      !.completed = TRUE]
    /\ pc' = "done"
    /\ UNCHANGED <<state, executed, swallowed, failed, writes, credits, lastDelta,
                   budgetVars, reducerVars, serviceVars>>

\* the except branch of run_analysis: the final update raised after the
\* results were persisted; handled tells whether the update of the except
\* branch is written or raises in its turn
run_analysis_error(handled) ==
    /\ pc = "END"
    /\ PersistedThenUpdated("legacy", state, None, LegacyKinds(state),
                            persist_results_to_db(store, state, None))
    /\ runRecord' = IF handled
                    THEN [runRecord EXCEPT !.status = "error",
                                           !.errors = <<[agent |-> "run_analysis"]>>,
                                           !.completed = TRUE]
                    ELSE runRecord
    /\ pc' = IF handled THEN "aborted" ELSE "crashed"
    /\ UNCHANGED <<state, executed, swallowed, failed, writes, credits, lastDelta,
                   budgetVars, reducerVars, serviceVars>>

NextLegacy ==
    \/ \E d \in Domains : run_analysis_begin(d)
    \/ run_analysis_begin_raises
    \/ \E a \in UNION {DiscoveryAttempts(d) : d \in Domains}, u \in UrlCounts,
          al \in BOOLEAN, r \in BOOLEAN : discovery_agent_node(a, u, al, r)
    \/ \E f \in 0..(COST_CAP_TAVILY_CREDITS \div 3) : news_retriever_node(f)
    \/ \E f \in 0..(COST_CAP_TAVILY_CREDITS \div 2) : patent_hunter_node(f)
    \/ \E o \in AttemptOutcomes : deepdive_agent_node(o)
    \/ verification_agent_node
    \/ \E c \in {0} \cup CostChoices : insight_synthesizer_node(c)
    \/ \E fail \in {None, "sources", "patents"} : run_analysis_finish(fail)
    \/ \E handled \in BOOLEAN : run_analysis_error(handled)

SpecLegacy == InitLegacy /\ [][NextLegacy]_vars

(***************************************************************************)
(* Output extraction of the discovery and founder agents                   *)
(*                                                                         *)
(* A response of the reasoning engine either carries a schema-validated    *)
(* structured_response or only messages.  Confidence scores are in tenths. *)
(***************************************************************************)
Tenths == 0..10                       \* confidence_score: ge=0.0, le=1.0
ItemCounts == {0, 1, 2, 6}            \* URLs, profiles or leader lines in an answer

\* what the engine may answer: a structured response, or a last message that
\* is JSON of the schema, JSON that does not validate, or prose; or no message
EngineResponses ==
    {[kind |-> k, confidence |-> c, items |-> n] :
        k \in {"structured", "json"}, c \in Tenths, n \in ItemCounts}
    \cup {[kind |-> "prose", confidence |-> 0, items |-> n] : n \in ItemCounts}
    \cup {[kind |-> k, confidence |-> 0, items |-> 0] : k \in {"bad_json", "no_messages"}}

\* the engine did not return a valid structured result
Unparseable(resp) == resp.kind \in {"prose", "bad_json", "no_messages"}

\* DiscoveryAgent._create_fallback_discovery_output
create_fallback_discovery_output ==
    [discovered_urls |-> 0, confidence_score |-> 3]

\* DiscoveryAgent._extract_structured_output
extract_structured_output(resp) ==
    IF resp.kind \in {"structured", "json"}
    THEN [discovered_urls |-> resp.items, confidence_score |-> resp.confidence]
    ELSE create_fallback_discovery_output

\* DiscoveryAgent._create_discovery_results_from_structured
create_discovery_results_from_structured(out) ==
    [discovered_urls |-> out.discovered_urls, confidence_score |-> out.confidence_score]

\* FounderIntelligenceAgent._create_fallback_founder_output
create_fallback_founder_output == [founder_profiles |-> 0, confidence_score |-> 3]

\* FounderIntelligenceAgent._parse_founder_output_from_text: one profile for
\* every line naming a leader, founder_profiles[:5]
parse_founder_output_from_text(lines) ==
    [founder_profiles |-> IF lines <= 5 THEN lines ELSE 5, confidence_score |-> 6]

\* FounderIntelligenceAgent._extract_structured_founder_output
extract_structured_founder_output(resp) ==
    CASE resp.kind \in {"structured", "json"} ->
            [founder_profiles |-> resp.items, confidence_score |-> resp.confidence]
      [] resp.kind = "no_messages" -> create_fallback_founder_output
      [] OTHER -> parse_founder_output_from_text(resp.items)

\* FounderIntelligenceAgent._create_founder_profiles_from_structured: the
\* source_confidence of the profiles returned
create_founder_profiles_from_structured(out) ==
    IF out.founder_profiles > 0
    THEN [i \in 1..out.founder_profiles |-> "high"]
    ELSE <<"medium">>

InitExtraction ==
    /\ extracted = <<>>
    /\ IdleBudget /\ IdleReducers /\ IdleRun /\ IdleClient /\ IdleRuns

Extracted(stage, resp, output) ==
    /\ extracted' = <<[stage |-> stage, response |-> resp, output |-> output]>>
    /\ UNCHANGED <<budgetVars, reducerVars, runVars, clientVars, runsVars>>

\* DiscoveryAgent.discover_company from the engine's response on
discover_company(resp) ==
    Extracted("discovery", resp,
        create_discovery_results_from_structured(extract_structured_output(resp)))

\* FounderIntelligenceAgent.analyze_leadership_team from the engine's response on
analyze_leadership_team(resp) ==
    Extracted("founders", resp,
        create_founder_profiles_from_structured(extract_structured_founder_output(resp)))

NextExtraction ==
    \/ \E resp \in EngineResponses : discover_company(resp)
    \/ \E resp \in EngineResponses : analyze_leadership_team(resp)

SpecExtraction == InitExtraction /\ [][NextExtraction]_vars

(***************************************************************************)
(* The provider client of app/services/tavily_client.py                    *)
(*                                                                         *)
(* Time is in whole seconds.  _rate_limit_check suspends at its two        *)
(* asyncio.sleep calls; between them it runs without interruption.         *)
(***************************************************************************)
max_requests_per_minute == 30      \* self._max_requests_per_minute
StopAfterAttempt == 3              \* stop=stop_after_attempt(3)
Callers == {"c1", "c2"}            \* coroutines calling the client

\* what one HTTP request can end in
Responses == {"ok", "invalid_body", "client_error", "rate_limited",
              "server_error", "request_error"}

\* retry=retry_if_exception_type((httpx.HTTPStatusError, httpx.RequestError)):
\* raise_for_status raises HTTPStatusError for every 4xx and 5xx response
Retried(response) ==
    response \in {"client_error", "rate_limited", "server_error", "request_error"}

\* wait=wait_exponential(multiplier=2, min=4, max=60) before attempt k + 1:
\* max(min, min(multiplier * 2 ** (k - 1), max))
wait_exponential(k) ==
    LET result == 2 * (2 ^ (k - 1))
        capped == IF result < 60 THEN result ELSE 60
    IN  IF capped > 4 THEN capped ELSE 4

\* the window is reset when it has passed
WindowReset(cl, current_time) ==
    IF current_time >= cl.reset_time
    THEN [cl EXCEPT !.request_count = 0, !.reset_time = current_time + RateWindow]
    ELSE cl

\* _rate_limit_check run by one caller with no other caller in between:
\* the client's fields and the clock when it returns
rate_limit_check(cl) ==
    LET current_time == cl.now
        c1 == WindowReset(cl, current_time)
        c2 == IF c1.request_count >= max_requests_per_minute
              THEN LET woke == c1.now + (c1.reset_time - current_time) + 1
                   IN  [c1 EXCEPT !.now = woke, !.request_count = 0,
                                  !.reset_time = woke + RateWindow]
              ELSE c1
        time_since_last == current_time - c2.last_request_time
        c3 == IF time_since_last < 1
              THEN [c2 EXCEPT !.now = @ + (1 - time_since_last)]
              ELSE c2
    IN  [c3 EXCEPT !.request_count = @ + 1, !.last_request_time = c3.now]

\* _make_request under its retry decorator from attempt k on: responses[k] is
\* what the k-th HTTP request ends in, retry_after the header of a 429
RECURSIVE make_request_from(_, _, _, _, _)
make_request_from(k, cl, responses, retry_after, waits) ==
    LET checked  == rate_limit_check(cl)
        response == responses[k]
        after    == IF response = "rate_limited"
                    THEN [checked EXCEPT !.now = @ + retry_after]
                    ELSE checked
        outcome(result) == [client |-> after, responses |-> SubSeq(responses, 1, k),
                            attempts |-> k, waits |-> waits, result |-> result]
    IN  IF response = "ok" THEN outcome("returned")
        ELSE IF ~Retried(response) THEN outcome("raised")
        ELSE IF k >= StopAfterAttempt THEN outcome("RetryError")
        ELSE make_request_from(k + 1,
                               [after EXCEPT !.now = @ + wait_exponential(k)],
                               responses, retry_after,
                               Append(waits, wait_exponential(k)))

Client == [now |-> now, request_count |-> request_count, reset_time |-> reset_time,
           last_request_time |-> last_request_time]

SetClient(cl) ==
    /\ now' = cl.now
    /\ request_count' = cl.request_count
    /\ reset_time' = cl.reset_time
    /\ last_request_time' = cl.last_request_time

InitClient ==
    /\ IdleClient
    /\ IdleConf /\ IdleRuns /\ IdleBudget /\ IdleReducers /\ IdleRun

\* the first call of _make_request on a new client, retries included
make_request(responses, retry_after) ==
    LET r == make_request_from(1, Client, responses, retry_after, <<>>)
    IN  /\ request = <<>>
        /\ SetClient(r.client)
        /\ request' = <<[responses |-> r.responses, attempts |-> r.attempts,
                         waits |-> r.waits, result |-> r.result]>>
        /\ UNCHANGED <<callers, confVars, runsVars, budgetVars, reducerVars, runVars>>

NextRetry ==
    \E responses \in [1..StopAfterAttempt -> Responses], retry_after \in {1, 60} :
        make_request(responses, retry_after)

SpecRetry == InitClient /\ [][NextRetry]_vars

\* Concurrent callers: a coroutine inside _rate_limit_check is at its
\* first await (sleep_limit), its second (sleep_delay), or has been admitted;
\* current_time and wake are kept while the coroutine sleeps
CallerPc(c) == IF c \in DOMAIN callers THEN callers[c].pc ELSE "idle"

SetCaller(c, pc_, current_time, wake) ==
    callers' = [x \in DOMAIN callers \cup {c} |->
                  IF x = c THEN [pc |-> pc_, current_time |-> current_time, wake |-> wake]
                  ELSE callers[x]]

\* the minimum delay between requests, from the current_time read on entry:
\* the caller sleeps, or counts its request at once
DelayOrAdmit(c, current_time, count) ==
    LET time_since_last == current_time - last_request_time
    IN  IF time_since_last < 1
        THEN /\ request_count' = count
             /\ SetCaller(c, "sleep_delay", current_time, now + (1 - time_since_last))
             /\ UNCHANGED last_request_time
        ELSE /\ request_count' = count + 1
             /\ last_request_time' = now
             /\ SetCaller(c, "admitted", 0, 0)

\* a caller enters _rate_limit_check and runs to its first await or to the end
rate_limit_enter(c) ==
    LET cl == WindowReset(Client, now)
    IN  /\ CallerPc(c) = "idle"
        /\ reset_time' = cl.reset_time
        /\ IF cl.request_count >= max_requests_per_minute
           THEN /\ request_count' = cl.request_count
                /\ SetCaller(c, "sleep_limit", now, now + (cl.reset_time - now) + 1)
                /\ UNCHANGED last_request_time
           ELSE DelayOrAdmit(c, now, cl.request_count)
        /\ UNCHANGED <<now, request, confVars, runsVars, budgetVars, reducerVars, runVars>>

\* the sleep for the window is over: the counter and the window are reset
rate_limit_window_slept(c) ==
    /\ CallerPc(c) = "sleep_limit"
    /\ now >= callers[c].wake
    /\ reset_time' = now + RateWindow
    /\ DelayOrAdmit(c, callers[c].current_time, 0)
    /\ UNCHANGED <<now, request, confVars, runsVars, budgetVars, reducerVars, runVars>>

\* the sleep for the minimum delay is over: the request is counted
rate_limit_delay_slept(c) ==
    /\ CallerPc(c) = "sleep_delay"
    /\ now >= callers[c].wake
    /\ request_count' = request_count + 1
    /\ last_request_time' = now
    /\ SetCaller(c, "admitted", 0, 0)
    /\ UNCHANGED <<now, reset_time, request, confVars, runsVars, budgetVars, reducerVars, runVars>>

\* the HTTP request of an admitted caller is over; the caller may call again
request_over(c) ==
    /\ CallerPc(c) = "admitted"
    /\ SetCaller(c, "idle", 0, 0)
    /\ UNCHANGED <<now, request_count, reset_time, last_request_time, request,
                   confVars, runsVars, budgetVars, reducerVars, runVars>>

\* the callers that are in asyncio.sleep
Sleepers == {c \in DOMAIN callers : callers[c].pc \in {"sleep_limit", "sleep_delay"}}

\* time passes: a second, or up to the moment a sleeping caller is due; the
\* event loop resumes a sleeper when it is due
time_passes ==
    /\ \E t \in {now + 1} \cup {callers[c].wake : c \in Sleepers} :
          /\ t > now
          /\ t <= MaxClock
          /\ \A c \in Sleepers : t <= callers[c].wake \/ now >= callers[c].wake
          /\ \A c \in Sleepers : now < callers[c].wake
          /\ now' = t
    /\ UNCHANGED <<request_count, reset_time, last_request_time, callers, request,
                   confVars, runsVars, budgetVars, reducerVars, runVars>>

NextRateLimit ==
    \/ \E c \in Callers : rate_limit_enter(c)
    \/ \E c \in Callers : rate_limit_window_slept(c)
    \/ \E c \in Callers : rate_limit_delay_slept(c)
    \/ \E c \in Callers : request_over(c)
    \/ time_passes

\* the client after n requests made one after the other, each call entering
\* as soon as the one before was admitted
RECURSIVE AfterRequests(_)
AfterRequests(n) ==
    IF n = 0
    THEN [now |-> StartTime, request_count |-> 0, reset_time |-> StartTime + RateWindow,
          last_request_time |-> 0]
    ELSE rate_limit_check(AfterRequests(n - 1))

\* the client well into its first window, no caller inside
InitRateLimit ==
    /\ now = AfterRequests(WarmUp).now
    /\ request_count = AfterRequests(WarmUp).request_count
    /\ reset_time = AfterRequests(WarmUp).reset_time
    /\ last_request_time = AfterRequests(WarmUp).last_request_time
    /\ callers = EmptyMap
    /\ request = <<>>
    /\ IdleConf /\ IdleRuns /\ IdleBudget /\ IdleReducers /\ IdleRun

SpecRateLimit == InitRateLimit /\ [][NextRateLimit]_vars

(***************************************************************************)
(* Claims about the reducers                                               *)
(***************************************************************************)
RECURSIVE SumOfCost(_, _)
\* the sum of the contributions the deltas ds make to dimension k
SumOfCost(ds, k) ==
    IF ds = <<>> THEN 0
    ELSE (IF k \in DOMAIN Head(ds).cost THEN Head(ds).cost[k] ELSE 0)
         + SumOfCost(Tail(ds), k)

Reordered(ds, p) == [i \in 1..Len(ds) |-> ds[p[i]]]

\* C5: folding cost deltas into an empty cost map with merge_costs gives, for
\* every dimension, the sum of the deltas' values for it; every order of the
\* same deltas gives the same map; a dimension a delta does not name keeps
\* its value (and stays absent when it was absent).
C5_MergeCostsIsPerKeySum ==
    /\ \A k \in CostKeys :
          /\ (k \in DOMAIN acc.cost) <=> (\E i \in 1..Len(deltas) : k \in DOMAIN deltas[i].cost)
          /\ (k \in DOMAIN acc.cost) => acc.cost[k] = SumOfCost(deltas, k)
    /\ \A p \in Permutations(1..Len(deltas)) :
          FoldDeltas([cost |-> EmptyMap], Reordered(deltas, p)).cost = acc.cost
    /\ deltas # <<>> =>
          \A k \in CostKeys \ DOMAIN Last(deltas).cost :
              /\ (k \in DOMAIN acc.cost) <=> (k \in DOMAIN prev.cost)
              /\ (k \in DOMAIN prev.cost) => acc.cost[k] = prev.cost[k]

\* three deltas, two of them naming the same dimension and one leaving it out
C5_Witness ==
    /\ Len(deltas) = 3
    /\ "tavily_credits" \in DOMAIN deltas[1].cost
    /\ "tavily_credits" \in DOMAIN deltas[2].cost
    /\ "tavily_credits" \notin DOMAIN deltas[3].cost
    /\ deltas[1].cost["tavily_credits"] # deltas[2].cost["tavily_credits"]
    /\ acc.cost["tavily_credits"] = 3

FiveStatuses == {"pending", "running", "complete", "partial", "error"}

\* the order the docstring of merge_status states, lowest first
PriorityOrder == <<"pending", "complete", "running", "partial", "error">>

RankOf(s) == CHOOSE i \in 1..Len(PriorityOrder) : PriorityOrder[i] = s

\* C7: over {pending, running, complete, partial, error} merge_status returns
\* the operand ranked higher in error > partial > running > complete > pending,
\* merge(s, s) = s, both operand orders give the same result (error with
\* running gives error both ways), and equal priorities keep the left operand.
C7_MergeStatusPriority ==
    (deltas # <<>> /\ prev.status \in FiveStatuses /\ Last(deltas).status \in FiveStatuses) =>
        LET l == prev.status
            r == Last(deltas).status
        IN  /\ acc.status \in {l, r}
            /\ RankOf(acc.status) >= RankOf(l)
            /\ RankOf(acc.status) >= RankOf(r)
            /\ (RankOf(l) = RankOf(r)) => acc.status = l
            /\ FoldDeltas([status |-> r], <<[status |-> l]>>).status = acc.status
            /\ FoldDeltas([status |-> l], <<[status |-> l]>>).status = l
            /\ ({l, r} = {"error", "running"}) => acc.status = "error"

\* running merged with error, and error merged with running
C7_Witness ==
    /\ Len(deltas) = 2
    /\ deltas[1].status = "error"
    /\ deltas[2].status = "running"
    /\ acc.status = "error"
    /\ \E s \in {"pending", "complete"} :
          FoldDeltas([status |-> s], <<deltas[1]>>).status = prev.status

\* C8: 'completed' is ranked like 'complete': with pending either order gives
\* completed; with running, partial or error the other value results.
C8_CompletedRankedLikeComplete ==
    (deltas # <<>>) =>
        LET l == prev.status
            r == Last(deltas).status
        IN  /\ ({l, r} = {"completed", "pending"}) => acc.status = "completed"
            /\ (l = "completed" /\ r \in {"running", "partial", "error"}) => acc.status = r
            /\ (r = "completed" /\ l \in {"running", "partial", "error"}) => acc.status = l

\* C9: merge_results concatenates per key: a key both operands name holds every
\* record of both lists (length = sum of the lengths), a key only one operand
\* names keeps exactly that operand's list.
C9_MergeResultsConcatenates ==
    (deltas # <<>>) =>
        LET l == prev.results
            r == Last(deltas).results
        IN  /\ DOMAIN acc.results = DOMAIN l \cup DOMAIN r
            /\ \A k \in DOMAIN l \cap DOMAIN r :
                  /\ Len(acc.results[k]) = Len(l[k]) + Len(r[k])
                  /\ \A x \in Range(l[k]) \cup Range(r[k]) :
                        CountIn(x, acc.results[k]) = CountIn(x, l[k]) + CountIn(x, r[k])
            /\ \A k \in DOMAIN l \ DOMAIN r : acc.results[k] = l[k]
            /\ \A k \in DOMAIN r \ DOMAIN l : acc.results[k] = r[k]

\* two deltas wrote "news" (one record, then two), only one wrote "patents"
C9_Witness ==
    /\ Len(deltas) = 2
    /\ deltas[1].results = [news |-> <<"doc1">>]
    /\ deltas[2].results = [news |-> <<"doc1", "doc2">>, patents |-> <<"doc2">>]
    /\ Len(acc.results["news"]) = 3
    /\ acc.results["patents"] = <<"doc2">>

\* the deltas so far that carry an errors entry: the stage failures
FailureDeltas == {i \in 1..Len(deltas) : "errors" \in DOMAIN deltas[i]}

\* C6: errors, company_aliases and verified_facts are append-only: every merge
\* keeps the entries already there as a prefix, every entry of every delta is
\* in the merged list whatever the order the deltas are merged in (and the
\* lists are as long in every order), and the errors list never shrinks and is
\* at least as long as the number of stage failures.
C6_ListsAppendOnly ==
    /\ \A f \in ListFields : IsPrefix(prev[f], acc[f])
    /\ \A p \in Permutations(1..Len(deltas)) :
          LET r == FoldDeltas(InitialLists, Reordered(deltas, p))
          IN  \A f \in ListFields :
                 /\ Len(r[f]) = Len(acc[f])
                 /\ \A i \in 1..Len(deltas) :
                       f \in DOMAIN deltas[i] => Range(deltas[i][f]) \subseteq Range(r[f])
    /\ Len(acc.errors) >= Len(prev.errors)
    /\ Len(acc.errors) >= Cardinality(FailureDeltas)

\* 'Acme Inc' and 'Acme Corp' appended by two deltas, then a stage failure
C6_Witness ==
    /\ Len(deltas) = 3
    /\ deltas[1].company_aliases = <<"Acme Inc">>
    /\ deltas[2].company_aliases = <<"Acme Corp">>
    /\ FailureDeltas = {3}
    /\ acc.company_aliases = <<"Acme Inc", "Acme Corp">>
    /\ FoldDeltas(InitialLists, <<deltas[2], deltas[1]>>).company_aliases
          = <<"Acme Corp", "Acme Inc">>
    /\ Len(acc.errors) = 1

(***************************************************************************)
(* Claims about the budget ledger                                          *)
(***************************************************************************)
RECURSIVE SumFirst(_, _)
\* the cost of the first n ledger entries
SumFirst(entries, n) ==
    IF n = 0 THEN 0 ELSE entries[n].cost + SumFirst(entries, n - 1)

\* C10: check_budget with warn_only = true returns true in every ledger state;
\* with warn_only = false it returns false exactly when the global recorded
\* spend plus estimated_cost exceeds max_budget.
C10_CheckBudget ==
    \A c \in Range(lastCheck) :
        /\ c.warn_only => c.allowed
        /\ ~c.warn_only =>
              (~c.allowed <=> SumFirst(ledger, c.seen) + c.estimated_cost > MaxBudget)

\* a blocking check refused although the current run's own spend plus the
\* estimate is under the cap: the global spend decides
C10_Witness ==
    \E c \in Range(lastCheck) :
        /\ c.seen = Len(ledger)
        /\ ~c.warn_only
        /\ ~c.allowed
        /\ current_run_id # None
        /\ get_run_spend + c.estimated_cost < MaxBudget

\* C11: the budget is a hard limit: in every reachable state the sum of the
\* recorded ledger costs is at most max_budget.
C11_SpendWithinHardLimit == SumCost(ledger) <= MaxBudget

\* C12: get_budget_status reports current_spend = the sum of the cost of all
\* ledger entries (of every run), remaining = max_budget - current_spend, and
\* status healthy when remaining > 2, warning when 0.5 < remaining <= 2,
\* critical when remaining <= 0.5.
C12_BudgetStatus ==
    LET r     == get_budget_status
        total == SumFirst(ledger, Len(ledger))
    IN  /\ r.max_budget = MaxBudget
        /\ r.current_spend = total
        /\ r.remaining = MaxBudget - total
        /\ r.status = "healthy"  <=> MaxBudget - total > 2
        /\ r.status = "warning"  <=> (MaxBudget - total <= 2 /\ MaxBudget - total >= 1)
        /\ r.status = "critical" <=> MaxBudget - total <= 0

\* costs 3, 4 and 2 recorded under two run ids: spend 9, remaining 1, warning
C12_Witness ==
    /\ Len(ledger) = 3
    /\ ledger[1].cost = 3 /\ ledger[2].cost = 4 /\ ledger[3].cost = 2
    /\ ledger[1].run_id # ledger[3].run_id
    /\ get_budget_status.current_spend = 9
    /\ get_budget_status.remaining = 1
    /\ get_budget_status.status = "warning"

\* C13: the ledger is append-only: a step that changes it adds exactly one
\* entry after the existing ones and leaves those as they were (no step, a
\* run reset included, removes or rewrites an entry), and the total spend
\* reported afterwards is the spend before plus the cost just recorded,
\* whatever the interleaving of the callers.
C13_LedgerAppendOnly ==
    [][ledger' # ledger =>
          /\ Len(ledger') = Len(ledger) + 1
          /\ SubSeq(ledger', 1, Len(ledger)) = ledger
          /\ get_current_spend(None)' = get_current_spend(None) + Last(ledger').cost
          /\ get_current_spend(None)' = SumFirst(ledger', Len(ledger'))]_vars

\* entries of two runs recorded alternately, none lost in the reported spend
C13_Witness ==
    /\ Len(ledger) = 3
    /\ ledger[1].run_id = "r_1" /\ ledger[2].run_id = "r_2" /\ ledger[3].run_id = "r_1"
    /\ get_current_spend(None) = ledger[1].cost + ledger[2].cost + ledger[3].cost
    /\ get_current_spend("r_1") = ledger[1].cost + ledger[3].cost

\* C14: every ledger entry recorded by a call made on behalf of run R is
\* tagged run_id = R, also when two runs execute concurrently.
C14_EntriesTaggedWithTheirRun ==
    \A r \in DOMAIN tasks : \A i \in Range(tasks[r]) : ledger[i].run_id = r

(***************************************************************************)
(* Claims about the sequential LLM workflow                                *)
(***************************************************************************)
\* C1: when the discovery stage's reasoning-engine call raises (and nothing
\* else goes wrong), every later stage through synthesis still executes, the
\* final state has insights, the status written to the run record is partial
\* and the errors list has an entry naming the discovery stage.
C1_DiscoveryErrorEndsPartial ==
    (pc = "done" /\ swallowed = {"discovery"} /\ failed = {}) =>
        /\ executed = LLMStages
        /\ state.insights # <<>>
        /\ runRecord.status = "partial"
        /\ \E e \in Range(runRecord.errors) : e.agent = "discovery_llm"

\* C2: once a stage has returned a delta with status = partial and an errors
\* entry, the status written to the run record at the end of the run is
\* partial, never completed; completed is written only when no stage failed.
C2_PartialIsKept ==
    (pc = "done") =>
        /\ (failed # {}) => runRecord.status = "partial"
        /\ (runRecord.status = "completed") => failed = {}

(***************************************************************************)
(* Claims about the stage nodes and the legacy workflow                    *)
(***************************************************************************)
CreditStages == {"discovery_agent", "news_retriever", "patent_hunter", "deepdive_agent"}

RECURSIVE SumCredits(_)
\* the credits the stages in S used, each stage counted once
SumCredits(S) ==
    IF S = {} THEN 0
    ELSE LET s == CHOOSE x \in S : TRUE
         IN  (IF s \in DOMAIN credits THEN credits[s].used ELSE 0) + SumCredits(S \ {s})

\* C3: a stage node always returns a delta to the graph driver; whenever the
\* delta sets status = partial it also carries a fallback result (a key other
\* than errors and status) and an errors entry naming the stage; and a run
\* that ended has executed every stage.
C3_StageFailureContained ==
    /\ \A r \in Range(lastDelta) :
          r.delta.status = "partial" =>
              /\ DOMAIN r.delta \ {"errors", "status", "current_phase"} # {}
              /\ "errors" \in DOMAIN r.delta
              /\ r.delta.errors # <<>>
              /\ Last(r.delta.errors).agent = r.stage
    /\ pc \in {"END", "done"} => Range(executed) = LegacyStages

\* C4: when the run ended and no research stage failed, the tavily_credits
\* written to the run record is the sum of the credits discovery, news,
\* patents and deepdive used, each counted once.
C4_TavilyCreditsExactSum ==
    (pc = "done" /\ failed \cap CreditStages = {}) =>
        runRecord.cost["tavily_credits"] = SumCredits(CreditStages)

(***************************************************************************)
(* Claims about the order of the stages                                    *)
(***************************************************************************)
LLMNodes == <<"discovery_llm_agent", "news_llm_agent", "founder_llm_agent",
              "competitive_llm_agent", "patent_llm_agent", "deepdive_llm_agent",
              "verification_llm_agent", "synthesis_llm">>

\* the state holds what the stage wrote on success
StageOutputSet(st, stage) ==
    CASE stage = "discovery"    -> st.discovery_results # None
      [] stage = "news"         -> st.results.news # <<>>
      [] stage = "founders"     -> st.results.founders # <<>>
      [] stage = "competitive"  -> st.results.competitive # None
      [] stage = "patents"      -> st.results.patents # <<>>
      [] stage = "deepdive"     -> st.deepdive_results # None
      [] stage = "verification" -> st.verification_results # None
      [] stage = "synthesis"    -> st.insights # <<>>

\* C15: in the sequential LLM workflow the stages that have executed are a
\* prefix of discovery, news, founders, competitive, patents, deepdive,
\* verification, synthesis (each once, in that order); the node that may run
\* next is the successor of the last one that returned; the state it receives
\* holds the output of every predecessor that succeeded and the errors entry
\* of every predecessor that failed; a run that ended has executed all eight.
C15_SequentialOrder ==
    /\ IsPrefix(executed, LLMStages)
    /\ \A i \in 1..Len(LLMNodes) : pc = LLMNodes[i] => Len(executed) = i - 1
    /\ pc \in {"END", "done", "aborted"} => executed = LLMStages
    /\ pc = "crashed" => executed \in {<<>>, LLMStages}
    /\ \A s \in Range(executed) \ failed : StageOutputSet(state, s)
    /\ executed # <<>> => Len(state.errors) = Cardinality(failed)

\* the synthesis node is about to run after seven stages, one of which failed
C15_Witness ==
    /\ pc = "synthesis_llm"
    /\ Len(executed) = 7
    /\ failed = {"founders"}
    /\ state.results.news # <<>>
    /\ state.verification_results # None

PositionsOf(seq, x) == {i \in 1..Len(seq) : seq[i] = x}

\* every execution of b comes after an execution of a
Precedes(seq, a, b) ==
    \A j \in PositionsOf(seq, b) : \E i \in PositionsOf(seq, a) : i < j

\* C16: in the legacy fan-out workflow discovery_agent has completed before
\* news_retriever, patent_hunter or deepdive_agent run; verification_agent
\* runs only after all three of them have completed and at most once (exactly
\* once in a run whose graph reached END); insight_synthesizer runs only after
\* verification_agent has completed.
C16_FanOutOrder ==
    /\ \A r \in ResearchStages : Precedes(executed, "discovery_agent", r)
    /\ \A r \in ResearchStages : Precedes(executed, r, "verification_agent")
    /\ Precedes(executed, "verification_agent", "insight_synthesizer")
    /\ CountIn("verification_agent", executed) <= 1
    /\ pc = "verification_agent" => ResearchStages \subseteq Range(executed)
    /\ pc = "END" => CountIn("verification_agent", executed) = 1

\* a run whose graph ended, with the siblings completing in the order
\* deepdive_agent, patent_hunter, news_retriever
C16_Witness ==
    /\ pc = "END"
    /\ executed = <<"discovery_agent", "deepdive_agent", "patent_hunter",
                    "news_retriever", "verification_agent", "insight_synthesizer">>

(***************************************************************************)
(* Claims about result persistence                                         *)
(***************************************************************************)
\* C17: after a persistence call and the caller's next statement, a write has
\* been attempted for every entity kind the final state holds, whichever
\* write failed, and the final status update of the run has been issued.
C17_WriteFailureIsolated ==
    persists # <<>> =>
        /\ Last(persists).kinds \subseteq attempted
        /\ "runs" \in attempted

\* C18: a persistence call meets a duplicate key only when the same run was
\* persisted before: documents of two different runs never share an _id.
C18_RunScopedIds ==
    \A i \in 1..Len(persists) :
        persists[i].dupes # {} =>
            \E j \in 1..(i - 1) : persists[j].run_id = persists[i].run_id

\* C19: persisting the final state that the previous call persisted (no
\* write failing for a reason of its own in either call) leaves every
\* collection as it was, with at most one document per run in
\* competitive_analysis, deepdive_analysis, verification_analysis and
\* insights, and the duplicate keys it meets do not keep any write of the
\* call from being attempted.
C19_PersistTwice ==
    [][(/\ persists # <<>>
        /\ Len(persists') = Len(persists) + 1
        /\ Last(persists').workflow = Last(persists).workflow
        /\ Last(persists').final = Last(persists).final
        /\ Last(persists').fail = None
        /\ Last(persists).fail = None)
       => /\ store' = store
          /\ \A c \in {"competitive_analysis", "deepdive_analysis",
                       "verification_analysis", "insights"} :
                \A d, e \in store'[c] : d.run_id = e.run_id => d = e
          /\ Last(persists').kinds \subseteq attempted']_vars

(***************************************************************************)
(* Claims about the run record                                             *)
(***************************************************************************)
TerminalStatuses == {"completed", "partial", "error"}

\* pending, then running, then a terminal status
LifecycleRank(status) ==
    CASE status = "pending" -> 0
      [] status = "running" -> 1
      [] status \in TerminalStatuses -> 2

\* the background task has returned or an exception has left it
TaskEnded == pc \in {"done", "aborted", "crashed"}

\* C20: once the background task of a run has ended, the run record holds
\* one of completed, partial, error; every change of the record's status
\* moves it forward in pending, running, terminal; and a queued run
\* eventually has a terminal status, whichever step fails.
C20_RunRecordLifecycle ==
    /\ [](TaskEnded => runRecord.status \in TerminalStatuses)
    /\ [][(pc # "start" /\ runRecord'.status # runRecord.status)
            => LifecycleRank(runRecord'.status) > LifecycleRank(runRecord.status)]_vars
    /\ (pc = "queued") ~> (runRecord.status \in TerminalStatuses)

(***************************************************************************)
(* Claims about what a stage may touch                                     *)
(***************************************************************************)
\* C21: after a stage node has returned, the state object that was passed to
\* it, the nested results map and its lists included, is as it was when it
\* was passed; what the stage wrote is in the delta it returned only.
C21_StateIsCopyOnWrite ==
    \A r \in Range(lastDelta) : r.passedAfter = r.passed

(***************************************************************************)
(* Claims about degraded outputs                                           *)
(***************************************************************************)
SourceConfidenceRank(level) ==
    CASE level = "low" -> 1 [] level = "medium" -> 2 [] level = "high" -> 3

\* the confidence indicator of a stage's output: the confidence_score of the
\* discovery results, the source_confidence of the founder profiles
ConfidenceIndicator(stage, output) ==
    IF stage = "discovery" THEN output.confidence_score
    ELSE SourceConfidenceRank(output[1])

\* what the stage makes of a response
StageOutput(stage, resp) ==
    IF stage = "discovery"
    THEN create_discovery_results_from_structured(extract_structured_output(resp))
    ELSE create_founder_profiles_from_structured(extract_structured_founder_output(resp))

\* C22: when a stage has produced its output from an unparseable answer, the
\* confidence indicator of that output is strictly lower than the indicator
\* of the output the same stage produces from any valid structured result.
C22_UnparseableLowersConfidence ==
    \A e \in Range(extracted) :
        Unparseable(e.response) =>
            \A resp \in EngineResponses :
                resp.kind = "structured" =>
                    ConfidenceIndicator(e.stage, e.output)
                        < ConfidenceIndicator(e.stage, StageOutput(e.stage, resp))

\* C23: insights the synthesis stage produced without a schema-validated
\* result of the engine are labelled llm_enhanced = false.
C23_DegradedSynthesisLabelled ==
    executed # <<>> =>
        \A i \in Range(state.insights) : i.source # "structured" => ~i.llm_enhanced

(***************************************************************************)
(* Claims about the provider client                                        *)
(***************************************************************************)
TransientResponses == {"rate_limited", "server_error", "request_error"}

\* C24: a call of _make_request sends at most 3 requests; a request that
\* ends in a transport error, a 5xx or a 429 is followed by another one
\* unless it was the third; a request that ends in a 4xx other than 429 is
\* the only request of the call, and the call raises.
C24_RetriesTransientOnly ==
    \A r \in Range(request) :
        /\ r.attempts <= StopAfterAttempt
        /\ \A k \in 1..r.attempts :
              /\ (r.responses[k] \in TransientResponses /\ k < StopAfterAttempt)
                    => r.attempts > k
              /\ r.responses[k] = "client_error"
                    => (r.attempts = 1 /\ r.result = "raised")

\* C29: whatever the interleaving of the callers, the request counter of the
\* current window never exceeds _max_requests_per_minute.
C29_AtMostThirtyPerWindow == request_count <= max_requests_per_minute

(***************************************************************************)
(* Claims about the routing after discovery                                *)
(***************************************************************************)
\* C25: the route is decided from the discovery results (full research
\* exactly when they list more than 5 URLs), and the decision shows in the
\* stages that run: an execution routed to the full research runs every
\* stage of the graph, an execution routed to the fallback search does not
\* run that same set of stages.
C25_RoutesRunDifferentStages ==
    pc = "END" =>
        (Range(executed) = LegacyStages
            <=> route_after_discovery(state) = "parallel_research")

(***************************************************************************)
(* Claims about the provider calls of the legacy graph                     *)
(***************************************************************************)
CallsOf(s) == IF s \in DOMAIN credits THEN credits[s].calls ELSE 0

\* C28: in one execution of the legacy graph discovery makes at most 2
\* provider calls, news at most cap // 3, patents at most cap // 2 and
\* deepdive at most 1, failed calls included, and the four together never
\* more than COST_CAP_TAVILY_CREDITS.
C28_ProviderCallsWithinCap ==
    /\ CallsOf("discovery_agent") <= 2
    /\ CallsOf("news_retriever") <= COST_CAP_TAVILY_CREDITS \div 3
    /\ CallsOf("patent_hunter") <= COST_CAP_TAVILY_CREDITS \div 2
    /\ CallsOf("deepdive_agent") <= 1
    /\ CallsOf("discovery_agent") + CallsOf("news_retriever")
          + CallsOf("patent_hunter") + CallsOf("deepdive_agent")
            <= COST_CAP_TAVILY_CREDITS

\* the news loop was stopped by the cap with queries left, and every one of
\* the four stages made as many calls as it can
C28_Witness ==
    /\ pc = "END"
    /\ Len(state.queries.news) > COST_CAP_TAVILY_CREDITS \div 3
    /\ CallsOf("news_retriever") = COST_CAP_TAVILY_CREDITS \div 3
    /\ CallsOf("discovery_agent") = 2
    /\ CallsOf("patent_hunter") = 9
    /\ CallsOf("deepdive_agent") = 1


(***************************************************************************)
(* Claims about the operands of the reducers                               *)
(***************************************************************************)
\* C26: merge_results leaves its operands as they were: after a call the
\* left map and every list in it are what they were before the call, and no
\* list of the merged map is the list object of the right operand.
C26_ReducersArePure ==
    \A o \in Range(operands) : \A k \in DOMAIN o :
        o[k].leftAfter = o[k].left /\ o[k].shared = {}


(***************************************************************************)
(* Claims about the cost stored on the run record                          *)
(***************************************************************************)
\* the ledger entries recorded by calls made on behalf of run r
OwnEntries(r) == [i \in 1..Len(tasks[r]) |-> ledger[tasks[r][i]]]

\* C27: the cost on the record of a finished run is the run's own
\* consumption: openai_usd is the sum of the ledger entries tagged with the
\* run's id, tavily_credits the number of provider searches made on its
\* behalf, operations_count the number of operations recorded on its behalf.
C27_RunCostIsOwnConsumption ==
    [][\A r \in RunIds :
          (r \notin DOMAIN runs /\ r \in DOMAIN runs') =>
              /\ runs'[r].cost.openai_usd = get_current_spend(r)
              /\ runs'[r].cost.tavily_credits =
                    Len(SelectSeq(OwnEntries(r), LAMBDA e : e.operation = "tavily_search"))
              /\ runs'[r].cost.operations_count = Len(tasks[r])]_vars

(***************************************************************************)
(* Claims about the final status of the legacy run driver                  *)
(***************************************************************************)
\* every call a stage made to the outside succeeded and discovery found the
\* site; the synthesis stage is left out of the test because its try block
\* raises on the stage's own data in every run
OutsideSucceeded ==
    /\ failed \subseteq {"insight_synthesizer"}
    /\ \A s \in DOMAIN credits : credits[s].calls = credits[s].used
    /\ state.discovery_results # <<>>
    /\ state.discovery_results[1].discovered_urls > 0

\* C30: the status run_analysis writes with completed_at is complete,
\* partial or error, never running or pending, and it is complete when
\* nothing failed in the run.
C30_LegacyFinalStatus ==
    (pc = "done" /\ runRecord.completed) =>
        /\ runRecord.status \in {"complete", "partial", "error"}
        /\ OutsideSucceeded => runRecord.status = "complete"


=============================================================================
